---- MODULE Spec2Model ----
(***************************************************************************)
(* A model of hello-actix (src/src/main.rs): an actix-web server with      *)
(* nine handlers, a Mutex-guarded request counter shared by the handlers of *)
(* the /app1 scope, and three error types mapped to HTTP responses through *)
(* ResponseError.                                                          *)
(*                                                                         *)
(* A request is accepted (routed), then its handler runs.  Handlers that   *)
(* touch no shared state are one step.  app1 is four steps, so that        *)
(* handlers on different worker threads interleave at every point where    *)
(* the hardware lets them: lock(), the load and the store of               *)
(* `*counter += 1`, and the format!/return that drops the guard.           *)
(***************************************************************************)
EXTENDS Integers, Sequences, FiniteSets, TLC

\* ------------------------------------------------------------- bounds
\* Requests issued in one run.
NumReqs == 3
\* How many increments below i32::MAX the long-running server of
\* SpecOverflow starts.
NearMaxGap == 1

Reqs == 1..NumReqs

\* Request inputs of /user/{id}/{name}?age= and of the /user form.
Ids == {7}
Names == {"ann", "bob"}
Ages == {30}
\* Field payloads given to the classifier.
Fields == {"name", "email", "age"}

\* ---------------------------------------------------------- constants
\* counter: Mutex<i32>
I32_MAX == 2147483647
I32_MIN == (-2147483647) - 1

\* http::StatusCode
OK == 200
BAD_REQUEST == 400
INTERNAL_SERVER_ERROR == 500
GATEWAY_TIMEOUT == 504

TEXT_HTML == "text/html; charset=utf-8"
TEXT_PLAIN == "text/plain; charset=utf-8"
APPLICATION_JSON == "application/json"
\* A response built with HttpResponse::Ok().body(..): the code sets no
\* Content-Type header.
NoContentType == ""

Routes == {"index", "user_get", "user_post", "app1", "custom", "stream",
           "fail", "bad_data", "user_error"}

\* ------------------------------------------------------------- state
VARIABLES
    app_name,     \* AppState.app_name
    counter,      \* AppState.counter: the i32 inside the Mutex
    locked_by,    \* the request whose handler holds the MutexGuard, 0: unlocked
    poisoned,     \* the Mutex's poison flag
    route,        \* route[r]: the route request r was dispatched to
    pc,           \* pc[r]: where request r's handler stands
    tmp,          \* tmp[r]: the value app1 loaded in `*counter += 1`
    responses,    \* responses[r]: the HTTP responses sent for request r
    served,       \* counter-route responses sent in this run
    seq_no,       \* seq_no[r]: the value of served when r's response was sent
    base,         \* counter-route requests served before this run
    err,          \* the error value handed to the classifier
    classified    \* every classification of err: the counter then, the response

vars == <<app_name, counter, locked_by, poisoned, route, pc, tmp, responses,
          served, seq_no, base, err, classified>>

shared == <<app_name, counter, locked_by, poisoned>>

\* ------------------------------------------------------ pure functions
HttpResponse(status, content_type, body) ==
    [status |-> status, content_type |-> content_type, body |-> body]

\* struct MyError { name }, #[fail(display = "my error")]
MyError(name) == [name |-> name]

\* Fault: Display prints the payload instead of the fixed text.
MyError_to_string_name(e) == e.name

MyError_to_string(e) == "my error"

\* impl error::ResponseError for MyError {}: the trait's default methods.
MyError_status_code(e) == INTERNAL_SERVER_ERROR

MyError_error_response(e) ==
    HttpResponse(MyError_status_code(e), TEXT_PLAIN, MyError_to_string(e))

\* enum MyErrors
MyErrorsSet == {[enum |-> "MyErrors", variant |-> v] :
                    v \in {"InternalError", "BadClientData", "Timeout"}}

\* Fault: the body is the variant's Debug name, not its display text.
MyErrors_to_string_debug(e) == e.variant

MyErrors_to_string(e) ==
    CASE e.variant = "InternalError" -> "internal error"
      [] e.variant = "BadClientData" -> "bad request"
      [] e.variant = "Timeout" -> "timeout"

MyErrors_status_code(e) ==
    CASE e.variant = "InternalError" -> INTERNAL_SERVER_ERROR
      [] e.variant = "BadClientData" -> BAD_REQUEST
      [] e.variant = "Timeout" -> GATEWAY_TIMEOUT

MyErrors_error_response(e) ==
    HttpResponse(MyErrors_status_code(e), TEXT_HTML, MyErrors_to_string(e))

\* enum UserErrors
ValidationError(field) ==
    [enum |-> "UserErrors", variant |-> "ValidationError", field |-> field]

UserErrorsSet == {ValidationError(f) : f \in Fields}
                 \cup {[enum |-> "UserErrors", variant |-> "InternalError"]}

UserErrors_to_string(e) ==
    CASE e.variant = "ValidationError" ->
             "Validation error on field: " \o e.field
      [] e.variant = "InternalError" ->
             "An internal error occurred. Please try again later."

\* Fault: the two match arms of status_code swapped.
UserErrors_status_code_swapped(e) ==
    CASE e.variant = "ValidationError" -> INTERNAL_SERVER_ERROR
      [] e.variant = "InternalError" -> BAD_REQUEST

UserErrors_status_code(e) ==
    CASE e.variant = "ValidationError" -> BAD_REQUEST
      [] e.variant = "InternalError" -> INTERNAL_SERVER_ERROR

\* Fault: the body also reports the shared request counter.
UserErrors_error_response_counted(e) ==
    HttpResponse(UserErrors_status_code(e), TEXT_HTML,
                 UserErrors_to_string(e) \o " #" \o ToString(counter))

UserErrors_error_response(e) ==
    HttpResponse(UserErrors_status_code(e), TEXT_HTML, UserErrors_to_string(e))

AllErrors == MyErrorsSet \cup UserErrorsSet

\* No error value has been constructed.
NoError == [enum |-> "none", variant |-> "none"]

\* Fault: the validation succeeds.
validate_user_input_ok == [is_ok |-> TRUE, err |-> MyError("")]

\* fn validate_user_input_error() -> Result<(), MyError>
validate_user_input_error ==
    [is_ok |-> FALSE, err |-> MyError("input error")]

\* format!("Hello to {} and Request number is {}", app_name, counter)
app1_body(name, n) ==
    "Hello to " \o name \o " and Request number is " \o ToString(n)

\* format!("Hello {}! id:[{}], age:[{}]", args.1, args.0, info.age)
user_get_body(id, name, age) ==
    "Hello " \o name \o "! id:[" \o ToString(id) \o "], age:["
        \o ToString(age) \o "]"

\* format!("Hello {}!", info.name)
user_post_body(name) == "Hello " \o name \o "!"

\* serde_json::to_string(&MyObj { name })
MyObj_to_json(name) == "{\"name\":\"" \o name \o "\"}"

\* ------------------------------------------------------------ actions
\* The state main() constructs: AppState { app_name, counter: Mutex::new(0) }.
Init ==
    /\ app_name = "hello-actix"
    /\ counter = 0
    /\ locked_by = 0
    /\ poisoned = FALSE
    /\ route = [r \in Reqs |-> "none"]
    /\ pc = [r \in Reqs |-> "idle"]
    /\ tmp = [r \in Reqs |-> 0]
    /\ responses = [r \in Reqs |-> <<>>]
    /\ served = 0
    /\ seq_no = [r \in Reqs |-> 0]
    /\ base = 0
    /\ err = NoError
    /\ classified = {}

\* The server accepts request r and its router picks the service.
Accept(r, rt) ==
    /\ pc[r] = "idle"
    /\ route' = [route EXCEPT ![r] = rt]
    /\ pc' = [pc EXCEPT ![r] = "recv"]
    /\ UNCHANGED <<shared, tmp, responses, served, seq_no, base, err, classified>>

Handles(r, rt) == pc[r] = "recv" /\ route[r] = rt

\* The handler of r returns resp and the server writes it out.
Respond(r, resp) ==
    /\ responses' = [responses EXCEPT ![r] = Append(@, resp)]
    /\ pc' = [pc EXCEPT ![r] = "done"]

Untouched == UNCHANGED <<shared, route, tmp, served, seq_no, base, err, classified>>

index(r) ==
    /\ Handles(r, "index")
    /\ Respond(r, HttpResponse(OK, NoContentType, "Hey there!"))
    /\ Untouched

user_get(r) ==
    /\ Handles(r, "user_get")
    /\ \E id \in Ids, name \in Names, age \in Ages :
          Respond(r, HttpResponse(OK, NoContentType,
                                  user_get_body(id, name, age)))
    /\ Untouched

user_post(r) ==
    /\ Handles(r, "user_post")
    /\ \E name \in Names :
          Respond(r, HttpResponse(OK, NoContentType, user_post_body(name)))
    /\ Untouched

custom(r) ==
    /\ Handles(r, "custom")
    /\ Respond(r, HttpResponse(OK, APPLICATION_JSON, MyObj_to_json("user")))
    /\ Untouched

stream(r) ==
    /\ Handles(r, "stream")
    /\ Respond(r, HttpResponse(OK, APPLICATION_JSON, "stream"))
    /\ Untouched

\* Fault: the handler panics before it returns, so nothing is written.
fail_panics(r) ==
    /\ Handles(r, "fail")
    /\ pc' = [pc EXCEPT ![r] = "panicked"]
    /\ UNCHANGED <<shared, route, tmp, responses, served, seq_no, base, err,
                   classified>>

fail(r) ==
    /\ Handles(r, "fail")
    /\ Respond(r, MyError_error_response(MyError("test fail")))
    /\ Untouched

\* Fault: the error route counts its requests in the shared counter.
bad_data_counts(r) ==
    /\ Handles(r, "bad_data")
    /\ Respond(r, MyErrors_error_response(
                      [enum |-> "MyErrors", variant |-> "BadClientData"]))
    /\ counter' = counter + 1
    /\ UNCHANGED <<app_name, locked_by, poisoned, route, tmp, served, seq_no,
                   base, err, classified>>

bad_data(r) ==
    /\ Handles(r, "bad_data")
    /\ Respond(r, MyErrors_error_response(
                      [enum |-> "MyErrors", variant |-> "BadClientData"]))
    /\ Untouched

user_error(r) ==
    /\ Handles(r, "user_error")
    /\ Respond(r, IF validate_user_input_error.is_ok
                  THEN HttpResponse(OK, TEXT_PLAIN, "success!")
                  ELSE UserErrors_error_response(ValidationError("name")))
    /\ Untouched

\* Fault: the counter is entered without waiting for the guard.
app1_lock_no_wait(r) ==
    /\ Handles(r, "app1")
    /\ pc' = [pc EXCEPT ![r] = "load"]
    /\ locked_by' = r
    /\ UNCHANGED <<app_name, counter, poisoned, route, tmp, responses, served,
                   seq_no, base, err, classified>>

\* data.counter.lock().unwrap(): blocks while another handler holds the
\* guard; on a poisoned Mutex lock() returns Err, unwrap() panics and the
\* guard inside the error is dropped.
app1_lock(r) ==
    /\ Handles(r, "app1")
    /\ locked_by = 0
    /\ IF poisoned
       THEN /\ pc' = [pc EXCEPT ![r] = "panicked"]
            /\ UNCHANGED locked_by
       ELSE /\ pc' = [pc EXCEPT ![r] = "load"]
            /\ locked_by' = r
    /\ UNCHANGED <<app_name, counter, poisoned, route, tmp, responses, served,
                   seq_no, base, err, classified>>

\* *counter += 1, the read.
app1_load(r) ==
    /\ route[r] = "app1"
    /\ pc[r] = "load"
    /\ tmp' = [tmp EXCEPT ![r] = counter]
    /\ pc' = [pc EXCEPT ![r] = "store"]
    /\ UNCHANGED <<shared, route, responses, served, seq_no, base, err, classified>>

\* Fault: the guard is dropped right after the increment, before the value is
\* read into the body.
app1_store_drops_guard(r) ==
    /\ route[r] = "app1"
    /\ pc[r] = "store"
    /\ tmp[r] # I32_MAX
    /\ counter' = tmp[r] + 1
    /\ locked_by' = 0
    /\ pc' = [pc EXCEPT ![r] = "respond"]
    /\ UNCHANGED <<app_name, poisoned, route, tmp, responses, served, seq_no,
                   base, err, classified>>

\* *counter += 1, the add and the write.  At i32::MAX a build with overflow
\* checks (debug) panics: the guard is dropped while unwinding, which poisons
\* and unlocks the Mutex; a build without them (release) wraps.
app1_store(r) ==
    /\ route[r] = "app1"
    /\ pc[r] = "store"
    /\ IF tmp[r] = I32_MAX
       THEN \E overflow_checks \in BOOLEAN :
               IF overflow_checks
               THEN /\ pc' = [pc EXCEPT ![r] = "panicked"]
                    /\ poisoned' = TRUE
                    /\ locked_by' = 0
                    /\ UNCHANGED counter
               ELSE /\ counter' = I32_MIN
                    /\ pc' = [pc EXCEPT ![r] = "respond"]
                    /\ UNCHANGED <<poisoned, locked_by>>
       ELSE /\ counter' = tmp[r] + 1
            /\ pc' = [pc EXCEPT ![r] = "respond"]
            /\ UNCHANGED <<poisoned, locked_by>>
    /\ UNCHANGED <<app_name, route, tmp, responses, served, seq_no, base,
                   err, classified>>

\* HttpResponse::Ok().body(format!(.., app_name, counter)); the guard is
\* dropped on return.
app1_respond(r) ==
    /\ route[r] = "app1"
    /\ pc[r] = "respond"
    /\ Respond(r, HttpResponse(OK, NoContentType, app1_body(app_name, counter)))
    /\ locked_by' = 0
    /\ served' = served + 1
    /\ seq_no' = [seq_no EXCEPT ![r] = served + 1]
    /\ UNCHANGED <<app_name, counter, poisoned, route, tmp, base, err, classified>>

app1(r) == app1_lock(r) \/ app1_load(r) \/ app1_store(r) \/ app1_respond(r)

Next ==
    \E r \in Reqs :
        \/ \E rt \in Routes : Accept(r, rt)
        \/ index(r)
        \/ user_get(r)
        \/ user_post(r)
        \/ custom(r)
        \/ stream(r)
        \/ fail(r)
        \/ bad_data(r)
        \/ user_error(r)
        \/ app1(r)

Spec == Init /\ [][Next]_vars

\* Every handler runs on a worker thread the operating system keeps
\* scheduling, and no handler awaits: a handler step that stays possible is
\* taken.  Nothing obliges a client to send a request.
Fairness ==
    \A r \in Reqs :
        /\ WF_vars(index(r)) /\ WF_vars(user_get(r)) /\ WF_vars(user_post(r))
        /\ WF_vars(custom(r)) /\ WF_vars(stream(r))
        /\ WF_vars(fail(r)) /\ WF_vars(bad_data(r)) /\ WF_vars(user_error(r))
        /\ WF_vars(app1_lock(r)) /\ WF_vars(app1_load(r))
        /\ WF_vars(app1_store(r)) /\ WF_vars(app1_respond(r))

FairSpec == Spec /\ Fairness

\* A server that has been up long enough to have served all but NearMaxGap
\* of the i32::MAX counter requests the counter can count.
InitOverflow ==
    /\ app_name = "hello-actix"
    /\ counter = I32_MAX - NearMaxGap
    /\ locked_by = 0
    /\ poisoned = FALSE
    /\ route = [r \in Reqs |-> "none"]
    /\ pc = [r \in Reqs |-> "idle"]
    /\ tmp = [r \in Reqs |-> 0]
    /\ responses = [r \in Reqs |-> <<>>]
    /\ served = 0
    /\ seq_no = [r \in Reqs |-> 0]
    /\ base = I32_MAX - NearMaxGap
    /\ err = NoError
    /\ classified = {}

SpecOverflow == InitOverflow /\ [][Next]_vars

\* The classifier applied to an error value drawn from the variants of both
\* enums, at any moment while counter requests are being served.
InitClassifier ==
    /\ app_name = "hello-actix"
    /\ counter = 0
    /\ locked_by = 0
    /\ poisoned = FALSE
    /\ route = [r \in Reqs |-> "app1"]
    /\ pc = [r \in Reqs |-> "recv"]
    /\ tmp = [r \in Reqs |-> 0]
    /\ responses = [r \in Reqs |-> <<>>]
    /\ served = 0
    /\ seq_no = [r \in Reqs |-> 0]
    /\ base = 0
    /\ err \in AllErrors
    /\ classified = {}

Classified(resp) ==
    /\ classified' = classified \cup {[at |-> counter, resp |-> resp]}
    /\ UNCHANGED <<shared, route, pc, tmp, responses, served, seq_no, base, err>>

\* <MyErrors as ResponseError>::error_response(&err)
classify_MyErrors ==
    /\ err \in MyErrorsSet
    /\ Classified(MyErrors_error_response(err))

\* <UserErrors as ResponseError>::error_response(&err)
classify_UserErrors ==
    /\ err \in UserErrorsSet
    /\ Classified(UserErrors_error_response(err))

NextClassifier ==
    \/ \E r \in Reqs : app1(r)
    \/ classify_MyErrors
    \/ classify_UserErrors

SpecClassifier == InitClassifier /\ [][NextClassifier]_vars

\* ------------------------------------------------------------- claims
ErrorRoutes == {"fail", "bad_data", "user_error"}

App1Done(r) == route[r] = "app1" /\ pc[r] = "done"

InCounter(r) == pc[r] \in {"load", "store", "respond"}

\* C1: once no counter request is in flight, the counter (started at 0)
\* equals the number of counter requests that were issued, whatever the
\* interleaving of their handlers: no increment is lost.
C1_NoLostIncrement ==
    (\A r \in Reqs : ~(Handles(r, "app1") \/ InCounter(r)))
        => counter = Cardinality({r \in Reqs : route[r] = "app1"})

\* All NumReqs requests went to the counter route and were answered.
C1_Witness == \A r \in Reqs : App1Done(r)

\* C2: at most one handler is between lock() and the drop of the guard; when
\* a handler reads the counter into its body the counter is what its own
\* increment wrote; the response reports exactly that value; and no two
\* responses of the counter route report the same number.
C2_AtomicIncrementAndRead ==
    /\ Cardinality({r \in Reqs : InCounter(r)}) <= 1
    /\ \A r \in Reqs : InCounter(r) => locked_by = r
    /\ \A r \in Reqs : pc[r] = "respond" => counter = tmp[r] + 1
    /\ \A r \in Reqs :
          App1Done(r) =>
              responses[r] =
                  <<HttpResponse(200, "", app1_body(app_name, tmp[r] + 1))>>
    /\ \A r1, r2 \in Reqs :
          App1Done(r1) /\ App1Done(r2) /\ r1 # r2
              => responses[r1][1].body # responses[r2][1].body

\* Two counter responses are out while a third handler holds the guard.
C2_Witness ==
    \E r1, r2, r3 \in Reqs :
        /\ r1 # r2
        /\ App1Done(r1) /\ App1Done(r2)
        /\ pc[r3] = "respond"

\* The mapping table of the spec, by variant name.
TableStatus(variant) ==
    CASE variant = "InternalError" -> 500
      [] variant = "BadClientData" -> 400
      [] variant = "Timeout" -> 504
      [] variant = "ValidationError" -> 400

\* C3: for each of the four variants, in either enum, every classification
\* has the table's status code and the content type text/html; charset=utf-8,
\* and status_code gives a status for every variant.
C3_StatusAndContentType ==
    /\ \A c \in classified :
          /\ c.resp.status = TableStatus(err.variant)
          /\ c.resp.content_type = "text/html; charset=utf-8"
    /\ \A e \in MyErrorsSet : MyErrors_status_code(e) \in {400, 500, 504}
    /\ \A e \in UserErrorsSet : UserErrors_status_code(e) \in {400, 500, 504}

\* A ValidationError has been classified.
C3_Witness ==
    /\ err = ValidationError("email")
    /\ classified # {}

\* The message templates of the spec's table for the payload-free variants.
TableBody(variant) ==
    CASE variant = "InternalError" -> "internal error"
      [] variant = "BadClientData" -> "bad request"
      [] variant = "Timeout" -> "timeout"

\* C4 as stated: every classified InternalError, BadClientData or Timeout, of
\* whichever enum, has the table's status and the table's body.
C4_BodyIsTemplate_AnyEnum ==
    \A c \in classified :
        err.variant \in {"InternalError", "BadClientData", "Timeout"}
            => /\ c.resp.status = TableStatus(err.variant)
               /\ c.resp.body = TableBody(err.variant)

\* C4 amended: the table's status and body hold for the variants of MyErrors;
\* UserErrors::InternalError has status 500 and the body
\* "An internal error occurred. Please try again later."
C4_BodyIsTemplate_MyErrors ==
    \A c \in classified :
        /\ err.enum = "MyErrors"
              => /\ c.resp.status = TableStatus(err.variant)
                 /\ c.resp.body = TableBody(err.variant)
        /\ err.enum = "UserErrors" /\ err.variant = "InternalError"
              => /\ c.resp.status = 500
                 /\ c.resp.body =
                        "An internal error occurred. Please try again later."

\* Both InternalError variants are in reach: this one is UserErrors'.
C4_Witness ==
    /\ err = [enum |-> "UserErrors", variant |-> "InternalError"]
    /\ classified # {}

\* C5: ValidationError{field: "name"} classifies to status 400 with body
\* "Validation error on field: name", and every answered /user-error request
\* got exactly that one response, never "success!".
C5_UserErrorIsValidationError ==
    /\ UserErrors_error_response(ValidationError("name")).status = 400
    /\ UserErrors_error_response(ValidationError("name")).body
           = "Validation error on field: name"
    /\ \A r \in Reqs :
          route[r] = "user_error" /\ pc[r] # "recv"
              => /\ pc[r] = "done"
                 /\ Len(responses[r]) = 1
                 /\ responses[r][1].status = 400
                 /\ responses[r][1].body = "Validation error on field: name"
                 /\ responses[r][1].body # "success!"

\* A /user-error request has been answered.
C5_Witness ==
    \E r \in Reqs :
        route[r] = "user_error" /\ pc[r] = "done" /\ Len(responses[r]) = 1

\* C6: a request dispatched to /fail, /bad-data or /user-error is eventually
\* answered, with one response that has an error status and a non-empty
\* body, whatever the other requests do; it never has more than one response
\* and its handler never dies.
C6_FailuresAnswered ==
    /\ [](\A r \in Reqs :
             route[r] \in ErrorRoutes
                 => Len(responses[r]) <= 1 /\ pc[r] # "panicked")
    /\ \A r \in Reqs :
          (pc[r] = "recv" /\ route[r] \in ErrorRoutes)
              ~> /\ pc[r] = "done"
                 /\ Len(responses[r]) = 1
                 /\ responses[r][1].status >= 400
                 /\ responses[r][1].body # ""

\* A failing request was answered while one counter handler held the guard
\* and another waited for it.
C6_Witness ==
    \E r, h, w \in Reqs :
        /\ route[r] \in ErrorRoutes /\ pc[r] = "done"
        /\ Len(responses[r]) = 1
        /\ locked_by = h /\ InCounter(h)
        /\ Handles(w, "app1")

C8_Frame ==
    [][/\ app_name' = app_name
       /\ counter' # counter
             => /\ counter' = counter + 1
                /\ \E r \in Reqs :
                      /\ route[r] = "app1"
                      /\ pc[r] = "store" /\ pc'[r] = "respond"
       /\ \A r \in Reqs :
             pc[r] = "store" /\ pc'[r] = "respond" => counter' = counter + 1
       /\ \A r \in Reqs :
             route[r] # "app1" /\ pc'[r] # pc[r]
                 => counter' = counter /\ app_name' = app_name]_vars

\* An error request and a counter request have both been answered.
C8_Witness ==
    \E r1, r2 \in Reqs :
        /\ route[r1] \in ErrorRoutes /\ pc[r1] = "done"
        /\ App1Done(r2)
        /\ counter = 1

\* C9: every answered /fail request got status 500 and the body "my error";
\* the default mapping gives MyError 500 and that text for either payload
\* the program constructs.
C9_FailIs500 ==
    /\ \A r \in Reqs :
          route[r] = "fail" /\ pc[r] # "recv"
              => /\ pc[r] = "done"
                 /\ Len(responses[r]) = 1
                 /\ responses[r][1].status = 500
                 /\ responses[r][1].body = "my error"
    /\ \A n \in {"test fail", "input error"} :
          /\ MyError_error_response(MyError(n)).status = 500
          /\ MyError_error_response(MyError(n)).body = "my error"

\* A /fail request has been answered.
C9_Witness ==
    \E r \in Reqs :
        route[r] = "fail" /\ pc[r] = "done" /\ Len(responses[r]) = 1

\* C10 as stated: no counter handler dies, the counter never falls below
\* where it started, and each counter response reports a positive number
\* equal to the count of counter requests served up to it, also across
\* i32::MAX.
C10_CounterSurvivesMax ==
    /\ \A r \in Reqs : pc[r] # "panicked"
    /\ counter >= base
    /\ \A r \in Reqs :
          App1Done(r)
              => /\ seq_no[r] <= I32_MAX - base
                 /\ base + seq_no[r] > 0
                 /\ responses[r][1].body
                        = app1_body(app_name, base + seq_no[r])

====
